---- MODULE Spec2Model ----
(***************************************************************************)
(* One request to POST /upload-document of the newsletter-herald API       *)
(* gateway: backend/main.py upload_summary, the orchestrator               *)
(* backend/llm/providers.py choose_llm_and_summarize and its two adapters  *)
(* summarize_with_mistral and summarize_with_claude.                       *)
(*                                                                         *)
(* Strings are modelled by what the program does with them.  A document    *)
(* text is the number of tokens the tokenizer gives it; the prompt is the  *)
(* fixed instruction followed by that text.  Money is counted in           *)
(* ten-thousandths of a US dollar, the unit round(x, 4) rounds to.         *)
(***************************************************************************)
EXTENDS Integers, Sequences, FiniteSets, TLC

\* ------------------------------------------------------------------ bounds
\* Largest document text, in tokens, that the extraction step may deliver.
MaxTextTokens == 20000
\* A second, lower configured ceiling (MAX_ALLOWED_TOKENS set in the environment).
LowCeiling == 300
\* The runs checked for termination take the texts whose prompt estimate is at
\* most this far from the empty text, a ceiling or the routing threshold.
LiveWindow == 2

\* --------------------------------------------------------- program constants
\* config.py: max_allowed_tokens: int = 20_000
DefaultMaxAllowedTokens == 20000
\* providers.py: if token_estimate > 5000
RoutingThreshold == 5000
\* providers.py: (token_estimate / 1000) * 0.015, in ten-thousandths of a dollar
\* per 1000 tokens: 0.015 USD = 150 ten-thousandths.
RatePer1000 == 150
\* Tokens of the instruction "Summarize this church newsletter into a
\* 2-paragraph email message: " that the prompt puts before the text.  The
\* tokenizer's vocabulary (tiktoken) is outside the repository: the count is
\* taken as 14 and the tokens of a prompt as the instruction's plus the text's.
InstructionTokens == 14

ApiKeys == {"", "sk-ant-key"}
Ceilings == {DefaultMaxAllowedTokens, LowCeiling}
ContentTypes == {"application/pdf",
                 "application/vnd.openxmlformats-officedocument.wordprocessingml.document",
                 "text/plain"}
accepted_types == {"application/pdf",
                   "application/vnd.openxmlformats-officedocument.wordprocessingml.document"}

\* --------------------------------------------------------------- strings
RawText(n) == [instruction |-> FALSE, text |-> n]
\* f"Summarize this church newsletter into a 2-paragraph email message: {text}"
BuildPrompt(t) == [instruction |-> TRUE, text |-> t.text]
NoString == [instruction |-> FALSE, text |-> -1]

\* helpers/text_utils.py count_tokens: len(enc.encode(text))
count_tokens(s) == (IF s.instruction THEN InstructionTokens ELSE 0) + s.text

\* str.strip() on the generated texts the backends of this model return
Strip(s) == IF s = " Dear parish " THEN "Dear parish" ELSE s

\* ---------------------------------------------------------------- errors
NoError == [kind |-> "none", msg |-> <<>>, origin |-> "none"]
Err(k, m, o) == [kind |-> k, msg |-> m, origin |-> o]

NoResult == [summary |-> "", model |-> "none", tokens |-> -1, cost_usd_estimate |-> -1]
NoResponse == [arrived |-> FALSE]

VARIABLES
    settings,       \* the cached Settings object: anthropic_api_key, max_allowed_tokens
    pc,             \* position of the request in upload_summary and its callees
    text,           \* text extracted from the uploaded file
    prompt,         \* choose_llm_and_summarize: prompt
    token_estimate, \* choose_llm_and_summarize: token_estimate (-1 before it is set)
    model,          \* choose_llm_and_summarize: model
    summary,        \* choose_llm_and_summarize: summary (the adapter's return value)
    result,         \* the dict choose_llm_and_summarize returns
    response,       \* the HTTP response the adapter's requests.post got
    raised,         \* the exception propagating out of the current callee
    countCalls,     \* history: the arguments count_tokens was called with
    invoked,        \* history: the adapters called
    requests,       \* history: the outbound requests.post calls issued
    db,             \* the tables newsletters, summaries, model_usage
    ids,            \* upload_summary: newsletter_id and summary_id (0: not set)
    httpStatus      \* status of the HTTP response of upload_summary (0: none yet)

vars == <<settings, pc, text, prompt, token_estimate, model, summary, result,
          response, raised, countCalls, invoked, requests, db, ids, httpStatus>>

orchVars == <<prompt, token_estimate, model, summary, result, response, countCalls,
              invoked, requests>>

Init ==
    /\ settings \in [anthropic_api_key : ApiKeys, max_allowed_tokens : Ceilings]
    /\ pc = "auth"
    /\ text = NoString
    /\ prompt = NoString
    /\ token_estimate = -1
    /\ model = "none"
    /\ summary = ""
    /\ result = NoResult
    /\ response = NoResponse
    /\ raised = NoError
    /\ countCalls = <<>>
    /\ invoked = <<>>
    /\ requests = <<>>
    /\ db = [newsletters |-> <<>>, summaries |-> <<>>, model_usage |-> <<>>]
    /\ ids = [newsletter_id |-> 0, summary_id |-> 0]
    /\ httpStatus = 0

\* ------------------------------------------------------- upload_summary, 1
\* helpers/key_utils.py verify_api_key, the Depends of upload_summary: the
\* Authorization header of the request is the configured bearer key, or 401.
VerifyApiKey ==
    /\ pc = "auth"
    /\ \E authorized \in BOOLEAN :
         IF authorized
           THEN pc' = "validate" /\ UNCHANGED httpStatus
           ELSE pc' = "done" /\ httpStatus' = 401
    /\ UNCHANGED <<settings, text, raised, db, ids>>
    /\ UNCHANGED orchVars

\* if file.content_type not in accepted_types: raise HTTPException(400)
ValidateType ==
    /\ pc = "validate"
    /\ \E content_type \in ContentTypes :
         IF content_type \in accepted_types
           THEN pc' = "extract" /\ UNCHANGED httpStatus
           ELSE pc' = "done" /\ httpStatus' = 400
    /\ UNCHANGED <<settings, text, raised, db, ids>>
    /\ UNCHANGED orchVars

\* text = extract_text_from_file(...): the text, or an error answered with 500
ExtractText ==
    /\ pc = "extract"
    /\ \/ \E n \in 0..MaxTextTokens :
            /\ text' = RawText(n)
            /\ pc' = "summarize"
            /\ UNCHANGED <<raised, httpStatus>>
       \/ /\ raised' = Err("IOError", <<"Error extracting text">>, "extract")
          /\ pc' = "done"
          /\ httpStatus' = 500
          /\ UNCHANGED text
    /\ UNCHANGED <<settings, db, ids>>
    /\ UNCHANGED orchVars

\* ------------------------------------------- choose_llm_and_summarize, 1
\* Variant: the estimate taken over the raw document text.
EstimateInputRaw(p, t) == t

\* The string count_tokens is given: count_tokens(prompt), the prompt p built
\* from the text t.
EstimateInput(p, t) == p

\* Variant: the gate compares against the default ceiling, not the configured one.
ExceedsDefaultLimit(tokens) == tokens > DefaultMaxAllowedTokens

\* if token_estimate > settings.max_allowed_tokens
ExceedsLimit(tokens) == tokens > settings.max_allowed_tokens

\* Variant: the threshold itself already routes to the hosted backend.
UsesClaudeFromThreshold(tokens) == tokens >= RoutingThreshold

\* if token_estimate > 5000: claude, else: mistral
UsesClaude(tokens) == tokens > RoutingThreshold

\* prompt = f"...{text}"; token_estimate = count_tokens(prompt); the gate:
\* raise ValueError("Document too long (.. tokens). Limit is ..")
EstimateAndGate ==
    /\ pc = "summarize"
    /\ LET p == BuildPrompt(text)
           arg == EstimateInput(p, text)
           tokens == count_tokens(arg)
       IN /\ prompt' = p
          /\ countCalls' = Append(countCalls, arg)
          /\ token_estimate' = tokens
          /\ IF ExceedsLimit(tokens)
               THEN /\ raised' = Err("ValueError",
                                     <<"Document too long", tokens,
                                       settings.max_allowed_tokens>>, "gate")
                    /\ pc' = "except"
               ELSE /\ pc' = "select"
                    /\ UNCHANGED raised
    /\ UNCHANGED <<settings, text, model, summary, result, response, invoked,
                   requests, db, ids, httpStatus>>

\* the branch on the threshold: model = ..., summary = summarize_with_...(prompt)
SelectBackend ==
    /\ pc = "select"
    /\ IF UsesClaude(token_estimate)
         THEN /\ model' = "claude"
              /\ invoked' = Append(invoked, "claude")
              /\ pc' = "claude_key"
         ELSE /\ model' = "mistral"
              /\ invoked' = Append(invoked, "mistral")
              /\ pc' = "mistral_post"
    /\ UNCHANGED <<settings, text, prompt, token_estimate, summary, result, response,
                   raised, countCalls, requests, db, ids, httpStatus>>

\* ------------------------------------------------ the backends' answers
TransportCauses == {"ConnectionError", "Timeout"}
Statuses == {200, 201, 500}
GeneratedText == " Dear parish "
\* JSON body of the hosted API: an "error" object or not; "content" absent, an
\* empty list, a list whose first block has no "text", or one with the text.
ClaudeBodies == [error : BOOLEAN, content : {"missing", "empty", "notext", "text"}]
\* JSON body of the local endpoint: the "response" field absent or present.
MistralBodies == [response : {"missing", "text"}]
NoBody == [none |-> TRUE]

Failed(cause) == [arrived |-> TRUE, ok |-> FALSE, cause |-> cause, status |-> 0,
                  body |-> NoBody]
Answered(status, body) == [arrived |-> TRUE, ok |-> TRUE, cause |-> "", status |-> status,
                           body |-> body]
ClaudeResponses == {Failed(c) : c \in TransportCauses}
                     \cup {Answered(st, b) : st \in Statuses, b \in ClaudeBodies}
MistralResponses == {Failed(c) : c \in TransportCauses}
                      \cup {Answered(st, b) : st \in Statuses, b \in MistralBodies}

\* What may come back while requests.post blocks: a response or a refused
\* connection.  A timeout is not sent by anyone: it is raised by the client
\* when the time given to requests.post is over.
Arrivals(R) == R \ {Failed("Timeout")}

\* def summarize_with_...(prompt, timeout: int = 30), called as
\* summarize_with_...(prompt), and passed on as requests.post(timeout=timeout)
DefaultTimeout == 30

\* Variant: requests.post without a timeout (0 stands for timeout=None).
PostWithoutTimeout(backend) == 0

\* The timeout requests.post is given by the adapter of the backend.
PostTimeout(backend) == DefaultTimeout

Returned(s) == [raised |-> NoError, summary |-> s]
Raised(e) == [raised |-> e, summary |-> ""]

\* ------------------------------------------------- summarize_with_claude
\* Variant: the check is "is None", which an empty key passes.
KeyIsNone == FALSE

\* if not settings.anthropic_api_key
KeyMissing == settings.anthropic_api_key = ""

\* raise ValueError("ANTHROPIC_API_KEY environment variable is not set")
ClaudeCheckKey ==
    /\ pc = "claude_key"
    /\ IF KeyMissing
         THEN /\ raised' = Err("ValueError",
                               <<"ANTHROPIC_API_KEY environment variable is not set">>,
                               "claude")
              /\ pc' = "except"
         ELSE /\ pc' = "claude_post"
              /\ UNCHANGED raised
    /\ UNCHANGED <<settings, text, db, ids, httpStatus>>
    /\ UNCHANGED orchVars

\* response = requests.post("https://api.anthropic.com/v1/messages", ...)
ClaudePost ==
    /\ pc = "claude_post"
    /\ requests' = Append(requests,
                          [to |-> "claude", key |-> settings.anthropic_api_key,
                           max_tokens |-> settings.max_allowed_tokens,
                           prompt |-> prompt, timeout |-> PostTimeout("claude")])
    /\ pc' = "claude_wait"
    /\ UNCHANGED <<settings, text, prompt, token_estimate, model, summary, result,
                   response, raised, countCalls, invoked, db, ids, httpStatus>>

\* requests.post returns the response of the hosted API, or raises the
\* RequestException of a connection that failed.
ClaudeAnswer ==
    /\ pc = "claude_wait"
    /\ \E r \in Arrivals(ClaudeResponses) : response' = r
    /\ pc' = "claude_resp"
    /\ UNCHANGED <<settings, text, prompt, token_estimate, model, summary, result,
                   raised, countCalls, invoked, requests, db, ids, httpStatus>>

\* Nothing came back within the timeout: requests.post raises Timeout.
ClaudeTimeout ==
    /\ pc = "claude_wait"
    /\ requests[Len(requests)].timeout > 0
    /\ response' = Failed("Timeout")
    /\ pc' = "claude_resp"
    /\ UNCHANGED <<settings, text, prompt, token_estimate, model, summary, result,
                   raised, countCalls, invoked, requests, db, ids, httpStatus>>

\* Variant: the embedded error object is looked at before the HTTP status.
ClaudeOutcomeErrorFirst(r) ==
    IF ~r.ok
      THEN Raised(Err("Exception", <<"Request to Claude API failed", r.cause>>, "claude"))
    ELSE IF r.body.error
      THEN Raised(Err("Exception", <<"Claude API error">>, "claude"))
    ELSE IF r.status >= 400
      THEN Raised(Err("Exception",
                      <<"Request to Claude API failed", "HTTPError", r.status>>, "claude"))
    ELSE IF r.body.content = "text"
      THEN Returned(Strip(GeneratedText))
    ELSE Raised(Err("Exception", <<"Unexpected response format from Claude API">>,
                    "claude"))

\* What the body of the try block and its except clauses make of a response:
\* raise_for_status(), then "error" in data, then data["content"][0]["text"].
\* A RequestException (transport failure, HTTPError) and a KeyError are caught
\* and raised again as Exception; an IndexError is not caught.
ClaudeOutcome(r) ==
    IF ~r.ok
      THEN Raised(Err("Exception", <<"Request to Claude API failed", r.cause>>, "claude"))
    ELSE IF r.status >= 400
      THEN Raised(Err("Exception",
                      <<"Request to Claude API failed", "HTTPError", r.status>>, "claude"))
    ELSE IF r.body.error
      THEN Raised(Err("Exception", <<"Claude API error">>, "claude"))
    ELSE IF r.body.content = "missing"
      THEN Raised(Err("Exception",
                      <<"Unexpected response format from Claude API", "content">>,
                      "claude"))
    ELSE IF r.body.content = "empty"
      THEN Raised(Err("IndexError", <<"list index out of range">>, "claude"))
    ELSE IF r.body.content = "notext"
      THEN Raised(Err("Exception",
                      <<"Unexpected response format from Claude API", "text">>, "claude"))
    ELSE Returned(Strip(GeneratedText))

\* Variant: a failed hosted call falls back to the local backend.
ClaudeHandleWithFallback ==
    /\ pc = "claude_resp"
    /\ LET out == ClaudeOutcome(response)
       IN IF out.raised = NoError
            THEN /\ summary' = out.summary
                 /\ pc' = "cost"
                 /\ UNCHANGED <<model, invoked>>
            ELSE /\ model' = "mistral"
                 /\ invoked' = Append(invoked, "mistral")
                 /\ pc' = "mistral_post"
                 /\ UNCHANGED summary
    /\ response' = NoResponse
    /\ UNCHANGED <<settings, text, prompt, token_estimate, result, raised, countCalls,
                   requests, db, ids, httpStatus>>

\* response.raise_for_status() ... return data["content"][0]["text"].strip()
ClaudeHandle ==
    /\ pc = "claude_resp"
    /\ LET out == ClaudeOutcome(response)
       IN IF out.raised = NoError
            THEN /\ summary' = out.summary
                 /\ pc' = "cost"
                 /\ UNCHANGED raised
            ELSE /\ raised' = out.raised
                 /\ pc' = "except"
                 /\ UNCHANGED summary
    /\ response' = NoResponse
    /\ UNCHANGED <<settings, text, prompt, token_estimate, model, result, countCalls,
                   invoked, requests, db, ids, httpStatus>>

\* ------------------------------------------------ summarize_with_mistral
\* response = requests.post("http://localhost:11434/api/generate", ...)
MistralPost ==
    /\ pc = "mistral_post"
    /\ requests' = Append(requests,
                          [to |-> "mistral", key |-> "", max_tokens |-> 0,
                           prompt |-> prompt, timeout |-> PostTimeout("mistral")])
    /\ pc' = "mistral_wait"
    /\ UNCHANGED <<settings, text, prompt, token_estimate, model, summary, result,
                   response, raised, countCalls, invoked, db, ids, httpStatus>>

\* requests.post returns the response of the local endpoint, or raises the
\* RequestException of a connection that failed.
MistralAnswer ==
    /\ pc = "mistral_wait"
    /\ \E r \in Arrivals(MistralResponses) : response' = r
    /\ pc' = "mistral_resp"
    /\ UNCHANGED <<settings, text, prompt, token_estimate, model, summary, result,
                   raised, countCalls, invoked, requests, db, ids, httpStatus>>

\* Nothing came back within the timeout: requests.post raises Timeout.
MistralTimeout ==
    /\ pc = "mistral_wait"
    /\ requests[Len(requests)].timeout > 0
    /\ response' = Failed("Timeout")
    /\ pc' = "mistral_resp"
    /\ UNCHANGED <<settings, text, prompt, token_estimate, model, summary, result,
                   raised, countCalls, invoked, requests, db, ids, httpStatus>>

\* A RequestException is caught and raised again as Exception; the Exception
\* for a status other than 200 and the KeyError of data["response"] are not
\* RequestExceptions and leave the function as they are.
MistralOutcome(r) ==
    IF ~r.ok
      THEN Raised(Err("Exception", <<"Request to Mistral API failed", r.cause>>, "mistral"))
    ELSE IF r.status # 200
      THEN Raised(Err("Exception", <<"Mistral error", r.body.response>>, "mistral"))
    ELSE IF r.body.response = "missing"
      THEN Raised(Err("KeyError", <<"response">>, "mistral"))
    ELSE Returned(Strip(GeneratedText))

\* if response.status_code != 200 ... return data["response"].strip()
MistralHandle ==
    /\ pc = "mistral_resp"
    /\ LET out == MistralOutcome(response)
       IN IF out.raised = NoError
            THEN /\ summary' = out.summary
                 /\ pc' = "cost"
                 /\ UNCHANGED raised
            ELSE /\ raised' = out.raised
                 /\ pc' = "except"
                 /\ UNCHANGED summary
    /\ response' = NoResponse
    /\ UNCHANGED <<settings, text, prompt, token_estimate, model, result, countCalls,
                   invoked, requests, db, ids, httpStatus>>

\* ------------------------------------------- choose_llm_and_summarize, 2
\* round(x, 4) of x = num/den ten-thousandths of a dollar: the nearest whole
\* number of ten-thousandths.  Where num/den lies exactly between two of them
\* the binary double the program holds lies a little above or below the
\* middle (the model does not carry its bits), so either neighbour can result.
Round4(num, den) ==
    LET q == num \div den
        r == num % den
    IN IF 2 * r < den THEN {q}
       ELSE IF 2 * r > den THEN {q + 1}
       ELSE {q, q + 1}

\* Variant: token_estimate // 1000, whole thousands of tokens only.
CostPerWholeThousand(m, tokens) ==
    IF m = "claude" THEN Round4((tokens \div 1000) * RatePer1000, 1) ELSE Round4(0, 1)

\* cost_estimate = (token_estimate / 1000) * 0.015 for claude, 0 for mistral;
\* "cost_usd_estimate": round(cost_estimate, 4)
CostEstimates(m, tokens) ==
    IF m = "claude" THEN Round4(tokens * RatePer1000, 1000) ELSE Round4(0, 1)

\* return {"summary": ..., "model": ..., "tokens": ..., "cost_usd_estimate": ...}
CostAndReturn ==
    /\ pc = "cost"
    /\ \E c \in CostEstimates(model, token_estimate) :
         result' = [summary |-> summary, model |-> model, tokens |-> token_estimate,
                    cost_usd_estimate |-> c]
    /\ pc' = "store_newsletter"
    /\ UNCHANGED <<settings, text, prompt, token_estimate, model, summary, response,
                   raised, countCalls, invoked, requests, db, ids, httpStatus>>

\* ------------------------------------------------------- upload_summary, 2
DbError == Err("Exception", <<"database error">>, "db")

\* newsletter_id = await database.execute(newsletters.insert().values(...))
InsertNewsletter ==
    /\ pc = "store_newsletter"
    /\ \/ LET id == Len(db.newsletters) + 1
          IN /\ db' = [db EXCEPT !.newsletters =
                          Append(@, [id |-> id, filename |-> "file",
                                     uploader |-> "api_user", delivered |-> FALSE])]
             /\ ids' = [ids EXCEPT !.newsletter_id = id]
             /\ pc' = "store_summary"
             /\ UNCHANGED raised
       \/ /\ raised' = DbError
          /\ pc' = "except"
          /\ UNCHANGED <<db, ids>>
    /\ UNCHANGED <<settings, text, httpStatus>>
    /\ UNCHANGED orchVars

\* summary_id = await database.execute(summaries.insert().values(...))
InsertSummary ==
    /\ pc = "store_summary"
    /\ \/ LET id == Len(db.summaries) + 1
          IN /\ db' = [db EXCEPT !.summaries =
                          Append(@, [id |-> id, newsletter_id |-> ids.newsletter_id,
                                     summary |-> result.summary])]
             /\ ids' = [ids EXCEPT !.summary_id = id]
             /\ pc' = "store_usage"
             /\ UNCHANGED raised
       \/ /\ raised' = DbError
          /\ pc' = "except"
          /\ UNCHANGED <<db, ids>>
    /\ UNCHANGED <<settings, text, httpStatus>>
    /\ UNCHANGED orchVars

\* await database.execute(model_usage.insert().values(...))
InsertModelUsage ==
    /\ pc = "store_usage"
    /\ \/ /\ db' = [db EXCEPT !.model_usage =
                       Append(@, [id |-> Len(db.model_usage) + 1,
                                  summary_id |-> ids.summary_id,
                                  model |-> result.model,
                                  tokens |-> result.tokens,
                                  cost_usd_estimate |-> result.cost_usd_estimate])]
          /\ pc' = "respond"
          /\ UNCHANGED raised
       \/ /\ raised' = DbError
          /\ pc' = "except"
          /\ UNCHANGED db
    /\ UNCHANGED <<settings, text, ids, httpStatus>>
    /\ UNCHANGED orchVars

\* The status upload_summary answers an exception of its try block with:
\* except Exception as e: raise HTTPException(status_code=500, ...)
StatusFor(e) == 500

HandlerExcept ==
    /\ pc = "except"
    /\ httpStatus' = StatusFor(raised)
    /\ pc' = "done"
    /\ UNCHANGED <<settings, text, raised, db, ids>>
    /\ UNCHANGED orchVars

\* return JSONResponse(content={"summary": summary})
Respond ==
    /\ pc = "respond"
    /\ httpStatus' = 200
    /\ pc' = "done"
    /\ UNCHANGED <<settings, text, raised, db, ids>>
    /\ UNCHANGED orchVars

Next ==
    \/ VerifyApiKey
    \/ ValidateType
    \/ ExtractText
    \/ EstimateAndGate
    \/ SelectBackend
    \/ ClaudeCheckKey
    \/ ClaudePost
    \/ ClaudeAnswer
    \/ ClaudeTimeout
    \/ ClaudeHandle
    \/ MistralPost
    \/ MistralAnswer
    \/ MistralTimeout
    \/ MistralHandle
    \/ CostAndReturn
    \/ InsertNewsletter
    \/ InsertSummary
    \/ InsertModelUsage
    \/ HandlerExcept
    \/ Respond

Spec == Init /\ [][Next]_vars

\* ------------------------------------------------- runs with their fairness
\* The text sizes around the places where the behaviour changes.
SampleSizes ==
    {n \in 0..MaxTextTokens :
        \E m \in {InstructionTokens, RoutingThreshold} \cup Ceilings :
            n + InstructionTokens \in (m - LiveWindow)..(m + LiveWindow)}

\* text = extract_text_from_file(...), for a text of one of the sample sizes
ExtractSampleText ==
    /\ pc = "extract"
    /\ \/ \E n \in SampleSizes :
            /\ text' = RawText(n)
            /\ pc' = "summarize"
            /\ UNCHANGED <<raised, httpStatus>>
       \/ /\ raised' = Err("IOError", <<"Error extracting text">>, "extract")
          /\ pc' = "done"
          /\ httpStatus' = 500
          /\ UNCHANGED text
    /\ UNCHANGED <<settings, db, ids>>
    /\ UNCHANGED orchVars

\* The steps the request's own thread takes: statements of the handler and
\* its callees, which run one after the other, and the timeout of a pending
\* requests.post.  What a backend sends, and whether it sends, is not among them.
ProgramStep ==
    \/ VerifyApiKey
    \/ ValidateType
    \/ ExtractSampleText
    \/ EstimateAndGate
    \/ SelectBackend
    \/ ClaudeCheckKey
    \/ ClaudePost
    \/ ClaudeTimeout
    \/ ClaudeHandle
    \/ MistralPost
    \/ MistralTimeout
    \/ MistralHandle
    \/ CostAndReturn
    \/ InsertNewsletter
    \/ InsertSummary
    \/ InsertModelUsage
    \/ HandlerExcept
    \/ Respond

LiveNext ==
    \/ ProgramStep
    \/ ClaudeAnswer
    \/ MistralAnswer

FairSpec == Init /\ [][LiveNext]_vars /\ WF_vars(ProgramStep)

\* ------------------------------------------------------------ properties
\* choose_llm_and_summarize has been called and is past its gate.
CallStarted == text # NoString /\ pc # "summarize"
\* The token estimate of the prompt built from the extracted text.
PromptTokens == count_tokens(BuildPrompt(text))
\* The backend the threshold policy names for this prompt.
PolicyBackend == IF PromptTokens > 5000 THEN "claude" ELSE "mistral"
AdapterFailed == raised.origin \in {"claude", "mistral"}

\* C1: a call whose prompt token estimate is strictly greater than
\* settings.max_allowed_tokens ends in the limit-exceeded error (carrying the
\* measured count and the limit), returns no result record, and no adapter is
\* called and no outbound request is issued at any point of the call.
GateFailsClosed ==
    (CallStarted /\ PromptTokens > settings.max_allowed_tokens) =>
        /\ pc \in {"except", "done"}
        /\ raised = Err("ValueError",
                        <<"Document too long", PromptTokens, settings.max_allowed_tokens>>,
                        "gate")
        /\ result = NoResult
        /\ invoked = <<>>
        /\ requests = <<>>

\* C1 witness: a prompt above the routing threshold and above a configured
\* ceiling was rejected by the gate, and the call is over.
GateRejected ==
    /\ pc = "done"
    /\ raised.origin = "gate"
    /\ PromptTokens > 5000
    /\ PromptTokens = settings.max_allowed_tokens + 1

\* C2: a call that passes the gate selects the hosted backend exactly when the
\* estimate is > 5000 and the local one otherwise (5000 goes to mistral, 5001
\* to claude); the adapter called, the request issued and the 'model' field of
\* the result all name that backend.
RoutingByThreshold ==
    (CallStarted /\ PromptTokens <= settings.max_allowed_tokens) =>
        /\ pc # "select" => invoked = <<PolicyBackend>>
        /\ pc # "select" => model = PolicyBackend
        /\ \A i \in 1..Len(requests) : requests[i].to = PolicyBackend
        /\ result # NoResult => result.model = PolicyBackend
        /\ (PromptTokens = 5000 /\ pc # "select") => invoked = <<"mistral">>
        /\ (PromptTokens = 5001 /\ pc # "select") => invoked = <<"claude">>

\* C2 witness: an estimate of exactly 5001 was answered by the hosted backend.
RoutedJustAboveThreshold ==
    /\ result # NoResult
    /\ result.tokens = 5001
    /\ result.model = "claude"
    /\ requests # <<>>

\* C3: in every result record, a local result costs exactly 0 and a hosted
\* result costs (tokens/1000)*0.015 rounded to 4 decimal places: a whole number
\* of ten-thousandths at most half a ten-thousandth away from it (6000 tokens
\* give 0.09), for every token count from 5001 to the ceiling.
CostConsistent ==
    result # NoResult =>
        /\ result.model \in {"claude", "mistral"}
        /\ result.model = "mistral" => result.cost_usd_estimate = 0
        /\ result.model = "claude" =>
              /\ result.tokens \in 5001..settings.max_allowed_tokens
              /\ 2 * (result.cost_usd_estimate * 1000 - result.tokens * 150) \in -1000..1000
              /\ result.tokens = 6000 => result.cost_usd_estimate = 900

\* C3 witness: the hosted result for 6000 tokens, costing 0.09.
HostedCostScenario ==
    /\ result.model = "claude"
    /\ result.tokens = 6000
    /\ result.cost_usd_estimate = 900

\* C4: within one call at most one adapter is called and at most one outbound
\* request is issued, to the backend the threshold policy names; after the
\* adapter has failed, whatever the reason, this stays so.
NoFallbackNoRetry ==
    /\ Len(invoked) <= 1
    /\ Len(requests) <= 1
    /\ \A i \in 1..Len(invoked) : invoked[i] = PolicyBackend
    /\ \A i \in 1..Len(requests) : requests[i].to = PolicyBackend
    /\ AdapterFailed => invoked = <<raised.origin>>

\* C4 witness: the hosted adapter failed after its request, and the call and
\* the handler are over.
HostedFailedAfterRequest ==
    /\ pc = "done"
    /\ raised.origin = "claude"
    /\ raised.kind = "Exception"
    /\ Len(requests) = 1

\* C5: any failure of the selected adapter reaches the caller of
\* choose_llm_and_summarize as a SummarizationError wrapping the adapter's
\* error: a kind that is neither the gate's kind nor one of the adapters' own.
AdapterFailureWrapped ==
    (pc \in {"except", "done"} /\ AdapterFailed) =>
        /\ raised.kind = "SummarizationError"
        /\ raised.kind \notin {"ValueError", "Exception", "KeyError", "IndexError"}

\* C6: with the hosted credential empty, summarize_with_claude fails with the
\* configuration error before any outbound request: a call that ends in the
\* configuration error has issued no request, and a call of the adapter with an
\* empty credential ends in it.
ConfigErrorBeforeRequest ==
    /\ (raised.origin = "claude" /\ raised.kind = "ValueError") =>
          /\ settings.anthropic_api_key = ""
          /\ requests = <<>>
    /\ (settings.anthropic_api_key = "" /\ invoked = <<"claude">> /\ pc # "claude_key") =>
          /\ raised = Err("ValueError",
                          <<"ANTHROPIC_API_KEY environment variable is not set">>, "claude")
          /\ requests = <<>>

\* C6 witness: the hosted adapter was called without a credential and the call
\* is over.
ConfigErrorRaised ==
    /\ pc = "done"
    /\ invoked = <<"claude">>
    /\ raised.kind = "ValueError"
    /\ raised.origin = "claude"

\* C7: for both adapters a success-status response whose body lacks the
\* expected text field ends the adapter call in the backend-error outcome, never
\* in a lookup error (KeyError, IndexError, TypeError) leaving the adapter.
MalformedIsBackendError ==
    AdapterFailed => raised.kind \notin {"KeyError", "IndexError", "TypeError"}

\* C8: upload_summary answers a limit-exceeded or configuration error with a
\* client-error status and a backend error with a server-failure status.
StatusByErrorKind ==
    (pc = "done" /\ raised.origin \in {"gate", "claude", "mistral"}) =>
        IF raised.origin = "gate" \/ (raised.origin = "claude" /\ raised.kind = "ValueError")
          THEN httpStatus \in 400..499
          ELSE httpStatus \in 500..599

\* C9: summarize_with_claude keeps its failure layers apart, in this order:
\* (a) a transport failure, (b) an HTTP error status, whatever the body, (c) a
\* success status with an embedded error object, whatever else the body has,
\* (d) a success status without the text field; each ends in an error whose
\* reason is none of the other three's.
FailureLayersInOrder ==
    [][pc = "claude_resp" =>
         LET r == response
             e == raised'
         IN /\ ~r.ok => e.msg = <<"Request to Claude API failed", r.cause>>
            /\ (r.ok /\ r.status >= 400) =>
                  e.msg = <<"Request to Claude API failed", "HTTPError", r.status>>
            /\ (r.ok /\ r.status < 400 /\ r.body.error) => e.msg = <<"Claude API error">>
            /\ (r.ok /\ r.status < 400 /\ ~r.body.error /\ r.body.content # "text") =>
                  /\ e # NoError
                  /\ e.msg[1] \notin {"Request to Claude API failed", "Claude API error"}
            /\ (e = NoError) <=>
                  (r.ok /\ r.status < 400 /\ ~r.body.error /\ r.body.content = "text")
    ]_vars

\* C9 witness: an HTTP error status whose body also held an error object was
\* reported as the HTTP error.
HttpErrorReported ==
    /\ pc = "except"
    /\ raised.msg = <<"Request to Claude API failed", "HTTPError", 500>>

\* C10: the token count is estimated exactly once per call, over the built
\* prompt and not the raw text, and that one value is compared with the ceiling
\* and with the threshold, used in the cost and returned as 'tokens'.
EstimatedOnceOverPrompt ==
    CallStarted =>
        /\ countCalls = <<BuildPrompt(text)>>
        /\ countCalls[1] # text
        /\ prompt = BuildPrompt(text)
        /\ token_estimate = count_tokens(prompt)
        /\ (raised.origin = "gate") <=> (token_estimate > settings.max_allowed_tokens)
        /\ invoked # <<>> =>
              (invoked[1] = "claude" <=> token_estimate > 5000)
        /\ result # NoResult =>
              /\ result.tokens = token_estimate
              /\ result.model = "claude" =>
                    2 * (result.cost_usd_estimate * 1000 - token_estimate * 150)
                        \in -1000..1000

\* C10 witness: a text below the threshold whose prompt is above it was
\* answered by the hosted backend, with the prompt's count as 'tokens'.
PromptCountDecides ==
    /\ result # NoResult
    /\ count_tokens(text) <= 5000
    /\ result.tokens = count_tokens(prompt)
    /\ result.tokens > 5000
    /\ result.model = "claude"
    /\ Len(countCalls) = 1

\* C11: every call of choose_llm_and_summarize terminates, with a result record
\* or with an error; its one outbound request is issued with the timeout 30, and
\* when the backend has not answered within the timeout the call ends in the
\* backend error of a failed request instead of waiting on.
CallEnded ==
    \/ pc = "store_newsletter" /\ result # NoResult /\ raised = NoError
    \/ pc = "except" /\ raised # NoError /\ result = NoResult

TimedOutAs(backend, name) ==
    /\ pc = "except"
    /\ raised = Err("Exception", <<name, "Timeout">>, backend)

CallTerminates ==
    /\ (pc = "summarize") ~> CallEnded
    /\ [](Len(requests) <= 1 /\ \A i \in 1..Len(requests) : requests[i].timeout = 30)
    /\ (pc = "claude_wait") ~> (pc = "claude_resp")
    /\ (pc = "mistral_wait") ~> (pc = "mistral_resp")
    /\ (pc = "claude_resp" /\ response = Failed("Timeout"))
          ~> TimedOutAs("claude", "Request to Claude API failed")
    /\ (pc = "mistral_resp" /\ response = Failed("Timeout"))
          ~> TimedOutAs("mistral", "Request to Mistral API failed")

\* C11 witness: the hosted backend did not answer in time and the call ended in
\* the error of a failed request.
HostedTimedOut ==
    /\ TimedOutAs("claude", "Request to Claude API failed")
    /\ Len(requests) = 1
    /\ requests[1].timeout = 30

\* The rows a successful request leaves: one per table, each referring to the
\* id returned by the insert before it.
OneRowEach ==
    /\ Len(db.newsletters) = 1
    /\ Len(db.summaries) = 1
    /\ Len(db.model_usage) = 1
    /\ db.summaries[1].newsletter_id = db.newsletters[1].id
    /\ db.model_usage[1].summary_id = db.summaries[1].id
NoRows ==
    /\ db.newsletters = <<>>
    /\ db.summaries = <<>>
    /\ db.model_usage = <<>>

\* C12: persistence by upload_summary is all-or-nothing per request: when the
\* handler ends with an error response no row written for the request remains
\* in the store, and when it ends with a success response exactly one row of
\* each table was written, each referring to the id of the insert before it.
PersistenceAllOrNothing ==
    pc = "done" => IF httpStatus = 200 THEN OneRowEach ELSE NoRows

\* C12, its part about success and about the order of the inserts: rows are
\* written newsletters first, model_usage last, and a success response has one
\* row of each; a row written before a failing insert is not taken back.
RowsInOrder ==
    /\ Len(db.model_usage) <= Len(db.summaries)
    /\ Len(db.summaries) <= Len(db.newsletters)
    /\ Len(db.newsletters) <= 1
    /\ (pc = "done" /\ httpStatus = 200) => OneRowEach
    /\ (pc = "done" /\ raised.origin \in {"gate", "claude", "mistral", "extract"}) => NoRows

====
